---- MODULE Spec2Model ----
(***************************************************************************)
(* Model of the ECS registry of src/main.cpp: one static vector of         *)
(* (entity id, component) pairs per component type, the operations of      *)
(* class ECS over it, and the two systems MoveSystem and GravitySystem,    *)
(* whose arithmetic is IEEE-754 binary32 (the C++ type float).             *)
(***************************************************************************)
EXTENDS Integers, Sequences, FiniteSets, TLC

(***************************************************************************)
(* Bounds of the model.                                                    *)
(***************************************************************************)
\* entity identifiers range over 1..MaxEntity
MaxEntity == 2
\* at most MaxApply system invocations change a component in one behaviour
MaxApply == 1
\* the collections of the store hold at most MaxRecords pairs altogether
MaxRecords == 3
\* entity identifiers range over 1..MaxHistoryEntity where the caller's
\* history of insertions and removals is kept (SpecHistory)
MaxHistoryEntity == 3
MaxRefEntity == 3

(***************************************************************************)
(* float: IEEE-754 binary32, round to nearest, ties to even.               *)
(* A float is the record of the three fields of its bit pattern.           *)
(***************************************************************************)
Float(sign, exp, frac) == [sign |-> sign, exp |-> exp, frac |-> frac]

\* the float whose sign bit is clear and whose low 31 bits are b
FromBits(b) == Float(0, b \div 8388608, b % 8388608)

FZero(sign) == Float(sign, 0, 0)
FInf(sign) == Float(sign, 255, 0)
FNaN == Float(0, 255, 4194304)

IsNaN(a) == a.exp = 255 /\ a.frac # 0
IsInf(a) == a.exp = 255 /\ a.frac = 0
IsZero(a) == a.exp = 0 /\ a.frac = 0

\* significand and exponent of a finite float: value = Mant * 2^(Expo - 150)
Mant(a) == IF a.exp = 0 THEN a.frac ELSE 8388608 + a.frac
Expo(a) == IF a.exp = 0 THEN 1 ELSE a.exp

\* s shifted right by n bits, the bits shifted out or-ed into the lowest bit
ShiftRightSticky(s, n) ==
    IF n <= 0 THEN s
    ELSE IF n >= 30 THEN (IF s = 0 THEN 0 ELSE 1)
    ELSE LET q == s \div (2 ^ n)
             r == s % (2 ^ n)
         IN IF r # 0 /\ q % 2 = 0 THEN q + 1 ELSE q

\* the number of left shifts that bring s (0 < s < top) up to top, at most lim
RECURSIVE LeadShift(_, _, _)
LeadShift(s, top, lim) ==
    IF lim <= 0 \/ s >= top THEN 0
    ELSE 1 + LeadShift(2 * s, top, lim - 1)

\* The float nearest to s * 2^(e - 153), s < 2^28 carrying three extra bits
\* (guard, round, sticky) below the 24-bit significand.
RoundPack(sign, e, s) ==
    IF s = 0 THEN FZero(sign)
    ELSE
    LET \* bring the leading bit to position 26, not below the least exponent
        up == IF s >= 134217728 THEN 0 ELSE LeadShift(s, 67108864, e - 1)
        s1 == IF s >= 134217728 THEN ShiftRightSticky(s, 1) ELSE s * (2 ^ up)
        e1 == IF s >= 134217728 THEN e + 1 ELSE e - up
        \* a result below the least normal exponent is denormalised
        s2 == IF e1 < 1 THEN ShiftRightSticky(s1, 1 - e1) ELSE s1
        e2 == IF e1 < 1 THEN 1 ELSE e1
        q == s2 \div 8
        r == s2 % 8
        q1 == IF r > 4 \/ (r = 4 /\ q % 2 = 1) THEN q + 1 ELSE q
        q2 == IF q1 = 16777216 THEN 8388608 ELSE q1
        e3 == IF q1 = 16777216 THEN e2 + 1 ELSE e2
    IN IF q2 < 8388608 THEN Float(sign, 0, q2)
       ELSE IF e3 >= 255 THEN FInf(sign)
       ELSE Float(sign, e3, q2 - 8388608)

FNeg(a) == Float(1 - a.sign, a.exp, a.frac)

\* a + b
FAdd(a, b) ==
    IF IsNaN(a) \/ IsNaN(b) THEN FNaN
    ELSE IF IsInf(a) THEN (IF IsInf(b) /\ a.sign # b.sign THEN FNaN ELSE a)
    ELSE IF IsInf(b) THEN b
    ELSE IF IsZero(a) /\ IsZero(b)
         THEN FZero(IF a.sign = 1 /\ b.sign = 1 THEN 1 ELSE 0)
    ELSE
    LET swap == Expo(a) < Expo(b)
        hi == IF swap THEN b ELSE a
        lo == IF swap THEN a ELSE b
        d == Expo(hi) - Expo(lo)
        sh == 8 * Mant(hi)
        sl == ShiftRightSticky(8 * Mant(lo), d)
    IN IF hi.sign = lo.sign THEN RoundPack(hi.sign, Expo(hi), sh + sl)
       ELSE IF sh = sl THEN FZero(0)
       ELSE IF sh > sl THEN RoundPack(hi.sign, Expo(hi), sh - sl)
       ELSE RoundPack(lo.sign, Expo(hi), sl - sh)

\* a - b
FSub(a, b) == FAdd(a, FNeg(b))

\* a * b
FMul(a, b) ==
    LET sign == IF a.sign = b.sign THEN 0 ELSE 1
    IN
    IF IsNaN(a) \/ IsNaN(b) THEN FNaN
    ELSE IF IsInf(a) \/ IsInf(b)
         THEN (IF IsZero(a) \/ IsZero(b) THEN FNaN ELSE FInf(sign))
    ELSE IF IsZero(a) \/ IsZero(b) THEN FZero(sign)
    ELSE
    LET \* both significands normalised to 24 bits
        ua == LeadShift(Mant(a), 8388608, 24)
        ub == LeadShift(Mant(b), 8388608, 24)
        ma == Mant(a) * (2 ^ ua)
        mb == Mant(b) * (2 ^ ub)
        \* the 48-bit product ph * 2^24 + pl, by 12-bit halves
        a1 == ma \div 4096
        a0 == ma % 4096
        b1 == mb \div 4096
        b0 == mb % 4096
        cross == a1 * b0 + a0 * b1
        t == a0 * b0 + (cross % 4096) * 4096
        pl == t % 16777216
        ph == a1 * b1 + cross \div 4096 + t \div 16777216
        top == 8 * ph + pl \div 2097152
        s == IF pl % 2097152 # 0 /\ top % 2 = 0 THEN top + 1 ELSE top
        e == (Expo(a) - ua) + (Expo(b) - ub) - 126
    IN RoundPack(sign, e, s)

(***************************************************************************)
(* Entities, components and systems.                                       *)
(***************************************************************************)
\* Entity::IDType values used as arguments
EntityIDs == 1 .. MaxEntity

\* the component types the templates of ECS are instantiated with: Position
\* of the source and one further, unrelated component type
ComponentTypes == {"Position", "Velocity"}

\* struct Position { float x{}; float y{}; }
Position(x, y) == [x |-> x, y |-> y]

\* the float literals of the source: 0.0f, 2.0f, 3.0f, 1.0f, 9.81f, 0.016f
F0 == FromBits(0)
F2 == FromBits(1073741824)
F3 == FromBits(1077936128)
F1 == FromBits(1065353216)
F9_81 == FromBits(1092416963)
F0_016 == FromBits(1015222895)

\* the component values passed to addComponentToEntity, per component type;
\* the second type has the shape of Position and one value, {1.0f, 1.0f}
Components(Component) ==
    IF Component = "Position" THEN {Position(F0, F0), Position(F2, F3)}
    ELSE {Position(F1, F1)}

\* the time deltas passed to applySystem
DeltaTimes == {F0_016}

Systems == {"MoveSystem", "GravitySystem"}

\* System::ComponentType
ComponentType(System) == "Position"

\* a MoveSystem that moves along x only
MoveSystem_XOnly(position, dt) ==
    Position(FAdd(position.x, FMul(F1, dt)), position.y)

\* MoveSystem::operator()
MoveSystem(position, dt) ==
    Position(FAdd(position.x, FMul(F1, dt)), FAdd(position.y, FMul(F1, dt)))

\* GravitySystem::operator()
GravitySystem(position, dt) ==
    Position(position.x, FSub(position.y, FMul(F9_81, dt)))

\* System{}(component, dt)
Invoke(System, component, dt) ==
    IF System = "MoveSystem" THEN MoveSystem(component, dt)
    ELSE GravitySystem(component, dt)

(***************************************************************************)
(* The store.                                                              *)
(***************************************************************************)
VARIABLES
    store,    \* store[T]: the static EntityComponentList<T> of ECS::get<T>()
    applied,  \* number of system invocations made so far
    live,     \* live[T]: entities added to T and not removed since
    call,     \* the most recent call of the API and what it returned
    prev,     \* the removal that call directly follows, when call is an insertion
              \* for the type and entity of that removal; NoCall otherwise
    held,     \* the pointer the caller keeps from a getComponentOfEntity
    recent,   \* recent[T]: the entities live in T, by latest successful insert
    ever,     \* ever[T].added: the entities addComponentToEntity<T> was ever
              \* called for; ever[T].removed: whether
              \* removeComponentFromEntity<T> was ever called
    bulk      \* the removal of all entities of a type the caller is carrying
              \* out: its type and the entities still to remove

vars == <<store, applied, live, call, prev, held, recent, ever, bulk>>

\* what the caller keeps besides the store: untouched by the calls themselves
caller == <<held, recent, ever, bulk>>

\* EntityComponentPair<Component>
EntityComponentPair(entityID, component) ==
    [first |-> entityID, second |-> component]

\* a get whose static instance is shared by all component types
get_Shared(Component) == "Position"

\* ECS::get<Component>(): the static instance of the component type
get(Component) == Component

\* the predicate returned by ECS::matchEntity
matchEntity(entityID, pair) == pair.first = entityID

\* components.end(), as a position
end(components) == Len(components) + 1

\* std::ranges::find_if(components, matchEntity(entityID)): the position of
\* the first matching pair, or end
find_if(components, entityID) ==
    LET hits == {i \in 1 .. Len(components) : matchEntity(entityID, components[i])}
    IN IF hits = {} THEN end(components)
       ELSE CHOOSE i \in hits : \A j \in hits : i <= j

\* an erase_if whose predicate is negated
erase_if_Negated(components, entityID) ==
    SelectSeq(components, LAMBDA pair : matchEntity(entityID, pair))

\* an erase_if that erases from the first match to the end
erase_if_ToEnd(components, entityID) ==
    LET hits == {i \in 1 .. Len(components) : matchEntity(entityID, components[i])}
    IN IF hits = {} THEN components
       ELSE SubSeq(components, 1, (CHOOSE i \in hits : \A j \in hits : i <= j) - 1)

\* an erase_if that erases the last pair when none matches
erase_if_PopBack(components, entityID) ==
    LET kept == SelectSeq(components, LAMBDA pair : ~matchEntity(entityID, pair))
    IN IF Len(kept) = Len(components) /\ Len(components) > 0
       THEN SubSeq(components, 1, Len(components) - 1)
       ELSE kept

\* an erase_if that moves the last pair into the place of the erased one
erase_if_SwapPop(components, entityID) ==
    LET hits == {i \in 1 .. Len(components) : matchEntity(entityID, components[i])}
        n == Len(components)
    IN IF hits = {} THEN components
       ELSE LET it == CHOOSE i \in hits : TRUE
            IN SubSeq([components EXCEPT ![it] = components[n]], 1, n - 1)

\* an erase_if that starts behind the first pair
erase_if_SkipFirst(components, entityID) ==
    LET keep == {i \in 1 .. Len(components) :
                    i = 1 \/ ~matchEntity(entityID, components[i])}
        F[i \in 0 .. Len(components)] ==
            IF i = 0 THEN <<>>
            ELSE IF i \in keep THEN Append(F[i - 1], components[i]) ELSE F[i - 1]
    IN F[Len(components)]

\* std::erase_if(components, matchEntity(entityID))
erase_if(components, entityID) ==
    SelectSeq(components, LAMBDA pair : ~matchEntity(entityID, pair))

\* an emplace at the front of the collection
emplace_back_Front(components, entityID, component) ==
    <<EntityComponentPair(entityID, component)>> \o components

\* components.emplace_back(entityID, component)
emplace_back(components, entityID, component) ==
    Append(components, EntityComponentPair(entityID, component))

\* a Component*: the element of a collection a pointer designates
Pointer(Component, slot) == [type |-> Component, slot |-> slot]

nullopt == [has_value |-> FALSE]
Optional(value) == [has_value |-> TRUE, value |-> value]

Call(op, Component, entityID, arg, ret) ==
    [op |-> op, type |-> Component, entityID |-> entityID, arg |-> arg, ret |-> ret]

NoCall == Call("none", "none", 0, "none", "void")

\* the caller holds no pointer; the caller is not removing in bulk
NoPointer == [type |-> "none", slot |-> 0, entityID |-> 0, state |-> "none"]
NoBulk == [type |-> "none", pending |-> {}]

\* the call c is made and returns
Returns(c) ==
    /\ call' = c
    /\ prev' = IF /\ c.op = "addComponentToEntity"
                  /\ call.op = "removeComponentFromEntity"
                  /\ call.type = c.type
                  /\ call.entityID = c.entityID
               THEN call
               ELSE NoCall

Init ==
    /\ store = [T \in ComponentTypes |-> <<>>]
    /\ applied = 0
    /\ live = [T \in ComponentTypes |-> {}]
    /\ call = NoCall
    /\ prev = NoCall
    /\ held = NoPointer
    /\ recent = [T \in ComponentTypes |-> <<>>]
    /\ ever = [T \in ComponentTypes |-> [added |-> {}, removed |-> FALSE]]
    /\ bulk = NoBulk

\* the number of pairs held by the collections of the types in Ts
RECURSIVE Records(_)
Records(Ts) ==
    IF Ts = {} THEN 0
    ELSE LET T == CHOOSE T \in Ts : TRUE
         IN Len(store[T]) + Records(Ts \ {T})

\* an addComponentToEntity without the search for an existing pair
addComponentToEntity_Unchecked(Component, entityID, component) ==
    /\ Records(ComponentTypes) < MaxRecords
    /\ store' = [store EXCEPT ![get(Component)] =
                    emplace_back(@, entityID, component)]
    /\ live' = [live EXCEPT ![Component] = @ \cup {entityID}]
    /\ Returns(Call("addComponentToEntity", Component, entityID, component, "void"))
    /\ UNCHANGED applied

\* an addComponentToEntity that overwrites the component of an existing pair
addComponentToEntity_Overwrite(Component, entityID, component) ==
    LET components == store[get(Component)]
        it == find_if(components, entityID)
    IN /\ IF it = end(components)
          THEN /\ Records(ComponentTypes) < MaxRecords
               /\ store' = [store EXCEPT ![get(Component)] =
                               emplace_back(components, entityID, component)]
          ELSE store' = [store EXCEPT ![get(Component)][it].second = component]
       /\ live' = [live EXCEPT ![Component] = @ \cup {entityID}]
       /\ Returns(Call("addComponentToEntity", Component, entityID, component, "void"))
       /\ UNCHANGED applied

\* ECS::addComponentToEntity<Component>(entityID, component)
addComponentToEntity(Component, entityID, component) ==
    LET components == store[get(Component)]
    IN /\ IF find_if(components, entityID) = end(components)
          THEN /\ Records(ComponentTypes) < MaxRecords
               /\ store' = [store EXCEPT ![get(Component)] =
                               emplace_back(components, entityID, component)]
          ELSE store' = store
       /\ live' = [live EXCEPT ![Component] = @ \cup {entityID}]
       /\ Returns(Call("addComponentToEntity", Component, entityID, component, "void"))
       /\ UNCHANGED applied

\* ECS::removeComponentFromEntity<Component>(entityID); ret records the
\* number of erased pairs, the value of std::erase_if the function drops
removeComponentFromEntity(Component, entityID) ==
    LET components == store[get(Component)]
        erased == erase_if(components, entityID)
    IN /\ store' = [store EXCEPT ![get(Component)] = erased]
       /\ live' = [live EXCEPT ![Component] = @ \ {entityID}]
       /\ Returns(Call("removeComponentFromEntity", Component, entityID, "none",
                       Len(components) - Len(erased)))
       /\ UNCHANGED applied

\* the value of ECS::entityHasComponent<Component>(entityID)
HasComponent(Component, entityID) ==
    LET components == store[get(Component)]
    IN find_if(components, entityID) # end(components)

\* ECS::entityHasComponent<Component>(entityID)
entityHasComponent(Component, entityID) ==
    /\ Returns(Call("entityHasComponent", Component, entityID, "none",
                    HasComponent(Component, entityID)))
    /\ UNCHANGED <<store, applied, live>>

\* a getComponentOfEntity that points at the front pair of the collection
ComponentOf_Front(Component, entityID) ==
    LET components == store[get(Component)]
        it == find_if(components, entityID)
    IN IF it # end(components)
       THEN Optional(Pointer(get(Component), 1))
       ELSE nullopt

\* the value of ECS::getComponentOfEntity<Component>(entityID)
ComponentOf(Component, entityID) ==
    LET components == store[get(Component)]
        it == find_if(components, entityID)
    IN IF it # end(components)
       THEN Optional(Pointer(get(Component), it))
       ELSE nullopt

\* a getComponentOfEntity that default-constructs the component of an absent
\* entity, as the operator[] of a map does
getComponentOfEntity_DefaultInsert(Component, entityID) ==
    LET components == store[get(Component)]
        it == find_if(components, entityID)
    IN /\ store' = IF it # end(components) THEN store
                   ELSE [store EXCEPT ![get(Component)] =
                            emplace_back(components, entityID, Position(F0, F0))]
       /\ Returns(Call("getComponentOfEntity", Component, entityID, "none",
                       Optional(Pointer(get(Component), it))))
       /\ UNCHANGED <<applied, live>>

\* ECS::getComponentOfEntity<Component>(entityID)
getComponentOfEntity(Component, entityID) ==
    /\ Returns(Call("getComponentOfEntity", Component, entityID, "none",
                    ComponentOf(Component, entityID)))
    /\ UNCHANGED <<store, applied, live>>

\* a view of the components that runs from the back to the front
ComponentsView_Reversed(Component) ==
    LET components == store[get(Component)]
    IN [i \in 1 .. Len(components) |->
           Pointer(get(Component), Len(components) + 1 - i)]

\* the elements of the view of ECS::getComponentsView<Component>()
ComponentsView(Component) ==
    LET components == store[get(Component)]
    IN [i \in 1 .. Len(components) |-> Pointer(get(Component), i)]

\* ECS::getComponentsView<Component>()
getComponentsView(Component) ==
    /\ Returns(Call("getComponentsView", Component, 0, "none",
                    ComponentsView(Component)))
    /\ UNCHANGED <<store, applied, live>>

\* a view of the entity IDs that stops one pair early
EntityIDsWithComponentView_Short(Component) ==
    LET components == store[get(Component)]
    IN [i \in 1 .. Len(components) - 1 |-> components[i].first]

\* the elements of the view of ECS::getEntityIDsWithComponentView<Component>()
EntityIDsWithComponentView(Component) ==
    LET components == store[get(Component)]
    IN [i \in 1 .. Len(components) |-> components[i].first]

\* ECS::getEntityIDsWithComponentView<Component>()
getEntityIDsWithComponentView(Component) ==
    /\ Returns(Call("getEntityIDsWithComponentView", Component, 0, "none",
                    EntityIDsWithComponentView(Component)))
    /\ UNCHANGED <<store, applied, live>>

\* an applySystem that default-constructs the component of an absent entity
applySystem_DefaultInsert(System, entityID, dt) ==
    LET Component == ComponentType(System)
        components == store[get(Component)]
        it == find_if(components, entityID)
        found == IF it # end(components) THEN components
                 ELSE emplace_back(components, entityID, Position(F0, F0))
    IN /\ applied < MaxApply
       /\ store' = [store EXCEPT ![get(Component)] =
                       [found EXCEPT ![it].second = Invoke(System, @, dt)]]
       /\ applied' = applied + 1
       /\ Returns(Call(System, Component, entityID, dt, TRUE))
       /\ UNCHANGED live

\* an applySystem that invokes the system on every pair of the collection
\* once the entity is found
applySystem_All(System, entityID, dt) ==
    LET Component == ComponentType(System)
        components == store[get(Component)]
        it == find_if(components, entityID)
    IN /\ IF it # end(components)
          THEN /\ applied < MaxApply
               /\ store' = [store EXCEPT ![get(Component)] =
                               [i \in 1 .. Len(components) |->
                                   [components[i] EXCEPT !.second = Invoke(System, @, dt)]]]
               /\ applied' = applied + 1
               /\ Returns(Call(System, Component, entityID, dt, TRUE))
          ELSE /\ Returns(Call(System, Component, entityID, dt, FALSE))
               /\ UNCHANGED <<store, applied>>
       /\ UNCHANGED live

\* an applySystem that takes the pair out of the collection and puts the
\* result of the system at its end
applySystem_Relocate(System, entityID, dt) ==
    LET Component == ComponentType(System)
        components == store[get(Component)]
        it == find_if(components, entityID)
    IN /\ IF it # end(components)
          THEN /\ applied < MaxApply
               /\ store' = [store EXCEPT ![get(Component)] =
                               emplace_back(erase_if(components, entityID), entityID,
                                            Invoke(System, components[it].second, dt))]
               /\ applied' = applied + 1
               /\ Returns(Call(System, Component, entityID, dt, TRUE))
          ELSE /\ Returns(Call(System, Component, entityID, dt, FALSE))
               /\ UNCHANGED <<store, applied>>
       /\ UNCHANGED live

\* ECS::applySystem<System>(entityID, dt); ret records whether the system
\* was invoked
applySystem(System, entityID, dt) ==
    LET Component == ComponentType(System)
        components == store[get(Component)]
        it == find_if(components, entityID)
    IN /\ IF it # end(components)
          THEN /\ applied < MaxApply
               /\ store' = [store EXCEPT ![get(Component)][it].second =
                               Invoke(System, @, dt)]
               /\ applied' = applied + 1
               /\ Returns(Call(System, Component, entityID, dt, TRUE))
          ELSE /\ Returns(Call(System, Component, entityID, dt, FALSE))
               /\ UNCHANGED <<store, applied>>
       /\ UNCHANGED live

\* the value a pointer designates: *pointer
Deref(pointer) == store[pointer.type][pointer.slot].second

Next ==
    \/ \E T \in ComponentTypes, e \in EntityIDs :
          \E c \in Components(T) :
             addComponentToEntity(T, e, c) /\ UNCHANGED caller
    \/ \E T \in ComponentTypes, e \in EntityIDs :
          removeComponentFromEntity(T, e) /\ UNCHANGED caller
    \/ \E T \in ComponentTypes, e \in EntityIDs :
          entityHasComponent(T, e) /\ UNCHANGED caller
    \/ \E T \in ComponentTypes, e \in EntityIDs :
          getComponentOfEntity(T, e) /\ UNCHANGED caller
    \/ \E T \in ComponentTypes :
          getComponentsView(T) /\ UNCHANGED caller
    \/ \E T \in ComponentTypes :
          getEntityIDsWithComponentView(T) /\ UNCHANGED caller
    \/ \E S \in Systems, e \in EntityIDs, dt \in DeltaTimes :
          applySystem(S, e, dt) /\ UNCHANGED caller

Spec == Init /\ [][Next]_vars

(***************************************************************************)
(* The calls with the caller's history of insertions and removals kept,    *)
(* on Position, and the removal of every entity ever inserted (the end of  *)
(* the second block of main).                                              *)
(***************************************************************************)
HistoryEntityIDs == 1 .. MaxHistoryEntity

\* addComponentToEntity, logged: the insertion is successful when the entity
\* is not live
LoggedAdd(T, e, c) ==
    /\ bulk = NoBulk
    /\ addComponentToEntity(T, e, c)
    /\ recent' = [recent EXCEPT ![T] = IF e \in live[T] THEN @ ELSE Append(@, e)]
    /\ ever' = [ever EXCEPT ![T].added = @ \cup {e}]
    /\ UNCHANGED <<held, bulk>>

\* removeComponentFromEntity, logged
LoggedRemove(T, e) ==
    /\ bulk = NoBulk
    /\ removeComponentFromEntity(T, e)
    /\ recent' = [recent EXCEPT ![T] = SelectSeq(@, LAMBDA a : a # e)]
    /\ ever' = [ever EXCEPT ![T].removed = TRUE]
    /\ UNCHANGED <<held, bulk>>

\* the caller sets out to remove every entity ever inserted into T
BeginBulkRemoval(T) ==
    /\ bulk = NoBulk
    /\ bulk' = [type |-> T, pending |-> ever[T].added]
    /\ UNCHANGED <<store, applied, live, call, prev, held, recent, ever>>

\* the caller removes one of the entities still to remove, in any order
BulkRemove(e) ==
    /\ e \in bulk.pending
    /\ removeComponentFromEntity(bulk.type, e)
    /\ recent' = [recent EXCEPT ![bulk.type] = SelectSeq(@, LAMBDA a : a # e)]
    /\ ever' = [ever EXCEPT ![bulk.type].removed = TRUE]
    /\ bulk' = [bulk EXCEPT !.pending = @ \ {e}]
    /\ UNCHANGED held

\* every entity was removed: the caller goes on
EndBulkRemoval ==
    /\ bulk # NoBulk
    /\ bulk.pending = {}
    /\ bulk' = NoBulk
    /\ UNCHANGED <<store, applied, live, call, prev, held, recent, ever>>

NextHistory ==
    \/ \E e \in HistoryEntityIDs, c \in Components("Position") :
          LoggedAdd("Position", e, c)
    \/ \E e \in HistoryEntityIDs : LoggedRemove("Position", e)
    \/ \E e \in HistoryEntityIDs :
          /\ bulk = NoBulk
          /\ entityHasComponent("Position", e)
          /\ UNCHANGED caller
    \/ /\ getEntityIDsWithComponentView("Position")
       /\ UNCHANGED caller
    \/ BeginBulkRemoval("Position")
    \/ \E e \in HistoryEntityIDs : BulkRemove(e)
    \/ EndBulkRemoval

SpecHistory == Init /\ [][NextHistory]_vars

(***************************************************************************)
(* The caller that keeps the pointer a getComponentOfEntity returned, as   *)
(* main does with pos.  held.state is "valid" from the call that returned  *)
(* the pointer until the next call that adds to or removes from the        *)
(* collection of held.type; then it is "stale" (the pointer still points   *)
(* into the buffer of the vector) or "dangling" (emplace_back grew the     *)
(* vector and may have moved its elements to a new buffer).                *)
(***************************************************************************)
RefEntityIDs == 1 .. MaxRefEntity

\* what a structural call on the collection of Component makes of the held
\* pointer; grew: the call appended a pair
Invalidated(Component, grew) ==
    IF held.type # Component \/ held.state = "dangling" THEN {held}
    ELSE IF grew
    THEN {[held EXCEPT !.state = "stale"], [held EXCEPT !.state = "dangling"]}
    ELSE {[held EXCEPT !.state = "stale"]}

\* if (const std::optional<Position*> pos = getComponentOfEntity(entityID);
\*     pos.has_value()): the caller keeps the pointer
Retain(Component, entityID) ==
    LET pos == ComponentOf(Component, entityID)
    IN /\ pos.has_value
       /\ getComponentOfEntity(Component, entityID)
       /\ held' = [type |-> pos.value.type, slot |-> pos.value.slot,
                   entityID |-> entityID, state |-> "valid"]
       /\ UNCHANGED <<recent, ever, bulk>>

\* the pointer goes out of scope
Release ==
    /\ held # NoPointer
    /\ held' = NoPointer
    /\ UNCHANGED <<store, applied, live, call, prev, recent, ever, bulk>>

\* the caller lets go of a pointer that is no longer valid before the next
\* call that adds or removes
RefAdd(Component, entityID, component) ==
    /\ held.state \in {"none", "valid"}
    /\ addComponentToEntity(Component, entityID, component)
    /\ held' \in Invalidated(get(Component), ~HasComponent(Component, entityID))
    /\ UNCHANGED <<recent, ever, bulk>>

RefRemove(Component, entityID) ==
    /\ held.state \in {"none", "valid"}
    /\ removeComponentFromEntity(Component, entityID)
    /\ held' \in Invalidated(get(Component), FALSE)
    /\ UNCHANGED <<recent, ever, bulk>>

\* the calls of main on the collection the pointer points into, and those
\* on another collection for the first entity
RefCalls == {<<T, e>> \in ComponentTypes \X RefEntityIDs : T = "Position" \/ e = 1}

NextRef ==
    \/ \E p \in RefCalls :
          \E c \in Components(p[1]) \ {Position(F0, F0)} : RefAdd(p[1], p[2], c)
    \/ \E p \in RefCalls : RefRemove(p[1], p[2])
    \/ \E p \in RefCalls : Retain(p[1], p[2])
    \/ Release
    \/ \E p \in RefCalls : entityHasComponent(p[1], p[2]) /\ UNCHANGED caller
    \/ \E p \in RefCalls : getComponentOfEntity(p[1], p[2]) /\ UNCHANGED caller
    \/ getComponentsView("Position") /\ UNCHANGED caller
    \/ getEntityIDsWithComponentView("Position") /\ UNCHANGED caller
    \/ \E e \in RefEntityIDs, dt \in DeltaTimes :
          applySystem("MoveSystem", e, dt) /\ UNCHANGED caller

SpecRef == Init /\ [][NextRef]_vars

(***************************************************************************)
(* Properties.                                                             *)
(***************************************************************************)

\* C1: in every reachable state each component type's collection holds at
\* most one pair per entity identifier.
C1_OneRecordPerEntity ==
    \A T \in ComponentTypes :
        \A i, j \in 1 .. Len(store[T]) :
            store[T][i].first = store[T][j].first => i = j

\* C1 witness: a collection of two pairs on which an insert for an entity it
\* already holds has just returned
C1_Witness ==
    /\ call.op = "addComponentToEntity"
    /\ Len(store[call.type]) = 2
    /\ \E i \in 1 .. 2 : /\ store[call.type][i].first = call.entityID
                         /\ store[call.type][i].second # call.arg

\* C2: an insert for an entity the collection already holds a pair of leaves
\* the whole collection as it was (pairs, values, order); get still returns
\* the first value and the new value is discarded.
C2_InsertExistingChangesNothing ==
    [][ \A T \in ComponentTypes, E \in EntityIDs :
           (/\ call'.op = "addComponentToEntity"
            /\ call'.type = T
            /\ call'.entityID = E
            /\ \E i \in 1 .. Len(store[T]) : store[T][i].first = E)
           => /\ store'[T] = store[T]
              /\ ComponentOf(T, E).has_value
              /\ (ComponentOf(T, E))' = ComponentOf(T, E)
              /\ (Deref(ComponentOf(T, E).value))' = Deref(ComponentOf(T, E).value)
      ]_vars

\* C2 witness: an insert of {2,3} for an entity of Position that holds
\* another value has returned
C2_Witness ==
    /\ call.op = "addComponentToEntity"
    /\ call.type = "Position"
    /\ call.arg = Position(F2, F3)
    /\ ComponentOf("Position", call.entityID).has_value
    /\ Deref(ComponentOf("Position", call.entityID).value) = Position(F0, F0)

\* C3: after remove(E) directly followed by insert(E, C2) on the same type,
\* get(E) returns C2, whatever E held before.
C3_RemoveThenInsertReplaces ==
    (/\ call.op = "addComponentToEntity"
     /\ prev.op = "removeComponentFromEntity"
     /\ prev.type = call.type
     /\ prev.entityID = call.entityID)
    => /\ ComponentOf(call.type, call.entityID).has_value
       /\ Deref(ComponentOf(call.type, call.entityID).value) = call.arg

\* C3 witness: the removal erased a pair of E, and the insert that followed
\* it put E back behind another entity's pair
C3_Witness ==
    /\ call.op = "addComponentToEntity"
    /\ prev.op = "removeComponentFromEntity"
    /\ prev.ret = 1
    /\ ComponentOf(call.type, call.entityID) = Optional(Pointer(call.type, 2))
    /\ Deref(Pointer(call.type, 2)) = call.arg

\* C4: exists(E) is true exactly when get(E) is non-empty, and the pointer
\* get returns designates the component of the pair whose key is E.
C4_ExistsIffGet ==
    \A T \in ComponentTypes, E \in EntityIDs :
        LET r == ComponentOf(T, E)
        IN /\ HasComponent(T, E) <=> r.has_value
           /\ r.has_value =>
                /\ r.value.type = T
                /\ r.value.slot \in 1 .. Len(store[T])
                /\ store[T][r.value.slot].first = E

\* C4 witness: get has returned a pointer to the second pair of a collection
C4_Witness ==
    /\ call.op = "getComponentOfEntity"
    /\ call.ret.has_value
    /\ call.ret.value.slot = 2
    /\ store[call.type][2].first = call.entityID

\* C5: after remove(E), exists(E) is false and the collection holds exactly
\* the pairs of the other entities it held before, values unchanged.
C5_RemoveErasesExactlyE ==
    [][ \A T \in ComponentTypes, E \in EntityIDs :
           (/\ call'.op = "removeComponentFromEntity"
            /\ call'.type = T
            /\ call'.entityID = E)
           => /\ ~(HasComponent(T, E))'
              /\ \A i \in 1 .. Len(store[T]) :
                    store[T][i].first # E
                    => \E j \in 1 .. Len(store'[T]) : store'[T][j] = store[T][i]
              /\ \A j \in 1 .. Len(store'[T]) :
                    /\ store'[T][j].first # E
                    /\ \E i \in 1 .. Len(store[T]) : store[T][i] = store'[T][j]
              /\ Len(store'[T]) =
                    Cardinality({i \in 1 .. Len(store[T]) : store[T][i].first # E})
      ]_vars

\* C5 witness: a removal erased a pair and left another in the collection
C5_Witness ==
    /\ call.op = "removeComponentFromEntity"
    /\ call.ret = 1
    /\ Len(store[call.type]) = 1
    /\ ~HasComponent(call.type, call.entityID)

\* C6: remove(E) on a collection that holds no pair of E returns normally,
\* leaves the collection as it was and exists(E) false.
C6_RemoveAbsentChangesNothing ==
    [][ \A T \in ComponentTypes, E \in EntityIDs :
           (/\ call'.op = "removeComponentFromEntity"
            /\ call'.type = T
            /\ call'.entityID = E
            /\ \A i \in 1 .. Len(store[T]) : store[T][i].first # E)
           => /\ store' = store
              /\ call'.ret = 0
              /\ ~(HasComponent(T, E))'
      ]_vars

\* C6 witness: a removal of an entity that a non-empty collection did not
\* hold has returned
C6_Witness ==
    /\ call.op = "removeComponentFromEntity"
    /\ call.ret = 0
    /\ store[call.type] # <<>>

\* C7: a call on component type A leaves the collection of every other
\* component type B, and so exists(E) on B for every E, as it was.
C7_TypeIsolation ==
    [][ \A B \in ComponentTypes :
            call'.type # B
            => /\ store'[B] = store[B]
               /\ \A E \in EntityIDs : (HasComponent(B, E))' = HasComponent(B, E)
      ]_vars

\* C7 witness: a Position was inserted for an entity that has no Velocity
\* while the Velocity collection holds another entity
C7_Witness ==
    /\ call.op = "addComponentToEntity"
    /\ call.type = "Position"
    /\ store["Position"][Len(store["Position"])].first = call.entityID
    /\ ~HasComponent("Velocity", call.entityID)
    /\ store["Velocity"] # <<>>

\* C8: applySystem for an entity whose component is absent returns normally
\* without invoking the system and leaves every collection as it was.
C8_ApplyAbsentChangesNothing ==
    [][ \A T \in ComponentTypes, E \in EntityIDs :
           (/\ call'.op \in Systems
            /\ call'.type = T
            /\ call'.entityID = E
            /\ \A i \in 1 .. Len(store[T]) : store[T][i].first # E)
           => /\ store' = store
              /\ call'.ret = FALSE
      ]_vars

\* C8 witness: a system was applied to an entity that a non-empty Position
\* collection does not hold
C8_Witness ==
    /\ call.op \in Systems
    /\ call.ret = FALSE
    /\ store["Position"] # <<>>
    /\ ~HasComponent("Position", call.entityID)

\* C9: applySystem on an entity holding Position p stores the system's
\* transformation of p in its place, in float arithmetic: MoveSystem gives
\* (p.x + 1.0f * dt, p.y + 1.0f * dt), so {2,3} and 0.016f give
\* {2.016f, 3.016f}; GravitySystem gives (p.x, p.y - 9.81f * dt); get(E)
\* then returns that value.
C9_SystemMutation ==
    [][ \A T \in ComponentTypes, E \in EntityIDs, dt \in DeltaTimes :
           (/\ call'.op \in Systems
            /\ call'.type = T
            /\ call'.entityID = E
            /\ call'.arg = dt
            /\ \E i \in 1 .. Len(store[T]) : store[T][i].first = E)
           => LET i == CHOOSE i \in 1 .. Len(store[T]) : store[T][i].first = E
                  p == store[T][i].second
                  q == IF call'.op = "MoveSystem"
                       THEN [x |-> FAdd(p.x, FMul(FromBits(1065353216), dt)),
                             y |-> FAdd(p.y, FMul(FromBits(1065353216), dt))]
                       ELSE [x |-> p.x,
                             y |-> FSub(p.y, FMul(FromBits(1092416963), dt))]
              IN /\ call'.ret = TRUE
                 /\ store' = [store EXCEPT ![T][i].second = q]
                 /\ (Deref(ComponentOf(T, E).value))' = q
                 /\ (/\ call'.op = "MoveSystem"
                     /\ p = [x |-> FromBits(1073741824), y |-> FromBits(1077936128)]
                     /\ dt = FromBits(1015222895))
                    => q = [x |-> FromBits(1073808933), y |-> FromBits(1078003237)]
      ]_vars

\* C9 witness: MoveSystem has turned {2,3} into {2.016f, 3.016f}
C9_Witness ==
    /\ call.op = "MoveSystem"
    /\ call.ret = TRUE
    /\ call.arg = FromBits(1015222895)
    /\ Deref(ComponentOf("Position", call.entityID).value) =
          [x |-> FromBits(1073808933), y |-> FromBits(1078003237)]

\* C10: the view of entity IDs of a type yields exactly the entities
\* inserted into it and not removed since, each once.
C10_IterationCompleteness ==
    \A T \in ComponentTypes :
        LET ids == EntityIDsWithComponentView(T)
        IN /\ \A i, j \in 1 .. Len(ids) : ids[i] = ids[j] => i = j
           /\ {ids[i] : i \in 1 .. Len(ids)} = live[T]
           /\ Len(ids) = Cardinality(live[T])

\* C10 witness: the view has yielded two entities, the later inserted last
C10_Witness ==
    /\ call.op = "getEntityIDsWithComponentView"
    /\ call.ret = <<2, 1>>
    /\ live[call.type] = {1, 2}

\* C12: the view of components and the view of entity IDs of a type have the
\* same length and order: the i-th pointer of the first designates the value
\* get returns for the i-th entity of the second.
C12_ViewsAgree ==
    \A T \in ComponentTypes :
        LET refs == ComponentsView(T)
            ids == EntityIDsWithComponentView(T)
        IN /\ Len(refs) = Len(ids)
           /\ \A i \in 1 .. Len(ids) :
                 /\ ComponentOf(T, ids[i]).has_value
                 /\ Deref(refs[i]) = Deref(ComponentOf(T, ids[i]).value)

\* C12 witness: the view of components has yielded two pointers to
\* different values
C12_Witness ==
    /\ call.op = "getComponentsView"
    /\ Len(call.ret) = 2
    /\ Len(EntityIDsWithComponentView(call.type)) = 2
    /\ Deref(call.ret[1]) # Deref(call.ret[2])

\* C17: applySystem on a present entity E changes the component of E's pair
\* only: the entity IDs of the collection (membership, count, order) and the
\* component of every other entity stay as they were.
C17_ApplyChangesOnlyE ==
    [][ \A T \in ComponentTypes, E \in EntityIDs :
           (/\ call'.op \in Systems
            /\ call'.type = T
            /\ call'.entityID = E
            /\ \E i \in 1 .. Len(store[T]) : store[T][i].first = E)
           => /\ Len(store'[T]) = Len(store[T])
              /\ \A i \in 1 .. Len(store[T]) :
                    /\ store'[T][i].first = store[T][i].first
                    /\ store[T][i].first # E
                       => store'[T][i].second = store[T][i].second
              /\ (EntityIDsWithComponentView(T))' = EntityIDsWithComponentView(T)
      ]_vars

\* C17 witness: a system was invoked on one of two entities of Position and
\* the other still holds the value it was inserted with
C17_Witness ==
    /\ call.op \in Systems
    /\ call.ret = TRUE
    /\ Len(store["Position"]) = 2
    /\ \E i \in 1 .. 2 : /\ store["Position"][i].first # call.entityID
                         /\ store["Position"][i].second \in Components("Position")
    /\ \E i \in 1 .. 2 : /\ store["Position"][i].first = call.entityID
                         /\ store["Position"][i].second \notin Components("Position")

\* C18: entityHasComponent, getComponentOfEntity, getComponentsView and
\* getEntityIDsWithComponentView return normally and leave every collection
\* as it was, also on a collection that holds nothing; for an absent entity
\* they yield false and an empty optional, and no pair is made for it.
C18_QueriesChangeNothing ==
    [][ \A T \in ComponentTypes :
           (/\ call'.op \in {"entityHasComponent", "getComponentOfEntity",
                             "getComponentsView", "getEntityIDsWithComponentView"}
            /\ call'.type = T)
           => /\ store' = store
              /\ \A E \in EntityIDs :
                    (/\ call'.entityID = E
                     /\ \A i \in 1 .. Len(store[T]) : store[T][i].first # E)
                    => /\ call'.op = "entityHasComponent" => call'.ret = FALSE
                       /\ call'.op = "getComponentOfEntity"
                          => call'.ret = [has_value |-> FALSE]
              /\ call'.op = "getComponentsView"
                 => Len(call'.ret) = Len(store[T])
              /\ call'.op = "getEntityIDsWithComponentView"
                 => Len(call'.ret) = Len(store[T])
      ]_vars

\* C18 witness: getComponentOfEntity has returned an empty optional while
\* no collection holds anything
C18_Witness ==
    /\ call.op = "getComponentOfEntity"
    /\ call.ret = [has_value |-> FALSE]
    /\ \A T \in ComponentTypes : store[T] = <<>>

\* C11: once the caller has called remove(E) for every entity E ever
\* inserted into a type, in any order and from any state, the view of entity
\* IDs of the type is empty and exists(E) is false for each of them.
C11_BulkRemovalConverges ==
    (bulk # NoBulk /\ bulk.pending = {})
    => /\ EntityIDsWithComponentView(bulk.type) = <<>>
       /\ \A e \in ever[bulk.type].added : ~HasComponent(bulk.type, e)

\* C11 witness: three entities were inserted, the removal of all of them is
\* through, and its last call erased a pair
C11_Witness ==
    /\ bulk = [type |-> "Position", pending |-> {}]
    /\ ever["Position"].added = {1, 2, 3}
    /\ call.op = "removeComponentFromEntity"
    /\ call.ret = 1

\* C14: an insert for an entity the collection holds no pair of appends the
\* pair as the last one and leaves the pairs before it as they were; while
\* no removal was called the view of entity IDs lists the entities in the
\* order of their first successful insert.
C14_InsertAppends ==
    /\ [][ \A T \in ComponentTypes, E \in HistoryEntityIDs :
              (/\ call'.op = "addComponentToEntity"
               /\ call'.type = T
               /\ call'.entityID = E
               /\ \A i \in 1 .. Len(store[T]) : store[T][i].first # E)
              => /\ Len(store'[T]) = Len(store[T]) + 1
                 /\ store'[T][Len(store'[T])] =
                       [first |-> E, second |-> call'.arg]
                 /\ \A i \in 1 .. Len(store[T]) : store'[T][i] = store[T][i]
         ]_vars
    /\ [](\A T \in ComponentTypes :
             ~ever[T].removed => EntityIDsWithComponentView(T) = recent[T])

\* C14 witness: with no removal called so far, an insert has appended a
\* third pair behind those of the entities inserted before
C14_Witness ==
    /\ call.op = "addComponentToEntity"
    /\ ~ever["Position"].removed
    /\ EntityIDsWithComponentView("Position") = <<3, 1, 2>>
    /\ store["Position"][3] = [first |-> call.entityID, second |-> call.arg]

\* C15: remove(E) keeps the relative order of the pairs that remain; so the
\* view of entity IDs lists the present entities in the order of their
\* latest successful insert.
C15_RemoveKeepsOrder ==
    /\ [][ \A T \in ComponentTypes, E \in HistoryEntityIDs :
              (/\ call'.op = "removeComponentFromEntity"
               /\ call'.type = T
               /\ call'.entityID = E)
              => \A i, j \in 1 .. Len(store[T]) :
                    (/\ i < j
                     /\ store[T][i].first # E
                     /\ store[T][j].first # E)
                    => \E k, l \in 1 .. Len(store'[T]) :
                          /\ k < l
                          /\ store'[T][k].first = store[T][i].first
                          /\ store'[T][l].first = store[T][j].first
         ]_vars
    /\ [](\A T \in ComponentTypes : EntityIDsWithComponentView(T) = recent[T])

\* C15 witness: of three entities the one stored first was removed and
\* inserted again, and then the one then stored first was removed
C15_Witness ==
    /\ call.op = "removeComponentFromEntity"
    /\ call.ret = 1
    /\ call.entityID = 2
    /\ ever["Position"].added = {1, 2, 3}
    /\ recent["Position"] = <<3, 1>>
    /\ EntityIDsWithComponentView("Position") = <<3, 1>>

\* C13: a pointer a getComponentOfEntity returned for entity E of a type
\* designates E's current component (the one a fresh getComponentOfEntity
\* returns) for as long as no call has added to or removed from the
\* collection of that type, whatever other calls were made.
C13_ReferenceStaysCurrent ==
    held.state = "valid"
    => /\ held.slot \in 1 .. Len(store[held.type])
       /\ store[held.type][held.slot].first = held.entityID
       /\ ComponentOf(held.type, held.entityID) =
             Optional(Pointer(held.type, held.slot))
       /\ Deref(Pointer(held.type, held.slot)) =
             Deref(ComponentOf(held.type, held.entityID).value)

\* C13 witness: the pointer to the component of the entity stored second
\* is held while a system has changed that component
C13_Witness ==
    /\ held.state = "valid"
    /\ held.type = "Position"
    /\ held.slot = 2
    /\ call.op = "MoveSystem"
    /\ call.entityID = held.entityID
    /\ call.ret = TRUE
    /\ Deref(Pointer(held.type, held.slot)) # Position(F2, F3)
    /\ store["Velocity"] # <<>>

\* C16: when the pointer to E's component is held and removeComponentFromEntity
\* is called for an entity F stored before E, the slot the pointer designates
\* no longer holds E's pair (it holds the pair that followed E, or lies past
\* the end), while E is still present, one slot earlier, with its value.
C16_ReferenceLostOnEarlierRemoval ==
    [][ \A T \in ComponentTypes, E \in RefEntityIDs, F \in RefEntityIDs :
           (/\ held.state = "valid"
            /\ held.type = T
            /\ held.entityID = E
            /\ F # E
            /\ call'.op = "removeComponentFromEntity"
            /\ call'.type = T
            /\ call'.entityID = F
            /\ \E i \in 1 .. held.slot - 1 : store[T][i].first = F)
           => /\ \/ /\ held.slot = Len(store[T])
                    /\ held.slot > Len(store'[T])
                 \/ /\ held.slot < Len(store[T])
                    /\ held.slot <= Len(store'[T])
                    /\ store'[T][held.slot].first # E
                    /\ store'[T][held.slot] = store[T][held.slot + 1]
              /\ held'.slot = held.slot
              /\ held'.state = "stale"
              /\ \E i \in 1 .. Len(store'[T]) : store'[T][i].first = E
              /\ held.slot - 1 \in 1 .. Len(store'[T])
              /\ store'[T][held.slot - 1] = store[T][held.slot]
      ]_vars

\* C16 witness: the pointer was held to the second of three pairs, the first
\* was removed, and the slot now holds the pair of the third entity
C16_Witness ==
    /\ held.state = "stale"
    /\ held.type = "Position"
    /\ held.slot = 2
    /\ call.op = "removeComponentFromEntity"
    /\ call.type = "Position"
    /\ call.ret = 1
    /\ Len(store["Position"]) = 2
    /\ store["Position"][1].first = held.entityID
    /\ store["Position"][2].first \notin {held.entityID, call.entityID}

====
